---- MODULE Spec2Model ----
(***************************************************************************)
(* The build registry of build.py: BuildDir (the registry, a process-wide  *)
(* singleton), BuildInfo (one record) and the file system under BUILD_DIR  *)
(* that BuildDir.load scans.                                               *)
(*                                                                         *)
(* A path is the sequence of its components.  A Python value that the code *)
(* passes as "platform" is either a str or a PlatformInfo object; the two  *)
(* are kept apart because the code compares and dereferences them.         *)
(* _build_list is a Python set of BuildInfo objects.  BuildInfo defines    *)
(* neither __eq__ nor __hash__, so the set holds one element per object:   *)
(* it is modelled as the bag of the objects' field values.                 *)
(*                                                                         *)
(* Four specifications: Spec, the calls on the registry in any order, with *)
(* directories and files appearing on disk between them; SpecPlatform, the *)
(* constructor of PlatformInfo over its arguments; SpecRecord, the         *)
(* constructor of BuildInfo over the directories it may meet; SpecDriver,  *)
(* one run of the script from its command line to its end.                 *)
(***************************************************************************)
EXTENDS Integers, FiniteSets, Sequences, Bags, TLC

VARIABLES
    disk,        \* the file system: [dirs, files], two sets of paths
    instance,    \* BuildDir.instance: "None" or "BuildDir"
    build_list,  \* BuildDir.instance._build_list: None, or <<bag of BuildInfo>>
    last,        \* the last call made: its name, arguments, result and exception
    driver       \* one run of the script (__main__): its position, arguments and log

vars == <<disk, instance, build_list, last, driver>>

----------------------------------------------------------------------------
(* Bounds of the model *)

\* BuildInfo objects one registry holds at most
MaxBuilds == 3

----------------------------------------------------------------------------
(* Values *)

BUILD_DIR == "Builds"

\* the directory names the scan meets under BUILD_DIR
Platforms == {"mac", "linux"}
Versions == {"v0.2.1", "latest"}
\* a name under BUILD_DIR that is a plain file, not a platform directory
JunkName == ".DS_Store"
SidecarName == "build_info.yaml"

None == <<>>
Some(x) == <<x>>

\* what a caller passes as platform: the str itself, or a PlatformInfo object
Str(s) == [type |-> "str", name |-> s]
PlatformInfo(p) == [type |-> "PlatformInfo", name |-> p]
PlatformArgs == {Str(p) : p \in Platforms} \cup {PlatformInfo(p) : p \in Platforms}

\* str.__eq__: build.platform is always a str; a PlatformInfo defines no __eq__,
\* so a str never equals one
PyEq(s, arg) == arg.type = "str" /\ arg.name = s

\* whether attribute access arg.platform succeeds: only a PlatformInfo has it
HasPlatformAttr(arg) == arg.type = "PlatformInfo"

----------------------------------------------------------------------------
(* PlatformInfo *)

ALL_PLATFORMS == {"mac", "windows", "linux"}

PLATFORM_ALIASES ==
    [macos |-> <<"mac", "x86_64">>,
     win   |-> <<"windows", "x86_64">>,
     win32 |-> <<"windows", "x86">>,
     win64 |-> <<"windows", "x86_64">>]

UpperCase == "ABCDEFGHIJKLMNOPQRSTUVWXYZ"
LowerCase == "abcdefghijklmnopqrstuvwxyz"

\* str.lower of one character
LowerChar(c) ==
    IF \E i \in 1..Len(UpperCase) : SubSeq(UpperCase, i, i) = c
    THEN LET i == CHOOSE j \in 1..Len(UpperCase) : SubSeq(UpperCase, j, j) = c
         IN  SubSeq(LowerCase, i, i)
    ELSE c

\* str.lower
RECURSIVE lower(_)
lower(s) ==
    IF Len(s) = 0 THEN ""
    ELSE LowerChar(SubSeq(s, 1, 1)) \o lower(SubSeq(s, 2, Len(s)))

\* a in s, s being a str: a is a substring of s
InStr(a, s) ==
    \E i \in 1..(Len(s) - Len(a) + 1) : SubSeq(s, i, i + Len(a) - 1) = a

\* PlatformInfo.__init__: the exception raised, or the platform and arch kept
PlatformInfoInit(platform0, arch0) ==
    LET aliased  == lower(platform0) \in DOMAIN PLATFORM_ALIASES
        platform == IF aliased THEN PLATFORM_ALIASES[lower(platform0)][1]
                    ELSE lower(platform0)
        arch     == IF aliased THEN PLATFORM_ALIASES[lower(platform0)][2]
                    ELSE lower(arch0)
    IN  IF platform \notin ALL_PLATFORMS
        THEN [err |-> "Exception", platform |-> platform, arch |-> arch]
        ELSE IF ~InStr(arch, "x86_64")
        THEN [err |-> "Exception", platform |-> platform, arch |-> arch]
        ELSE [err |-> "ok", platform |-> platform, arch |-> arch]

----------------------------------------------------------------------------
(* The file system *)

Root == <<BUILD_DIR>>

\* os.path.join
Join(path, name) == Append(path, name)

\* os.path.exists
Exists(d, path) == path \in d.dirs \cup d.files

\* the names os.listdir(path) returns (path being a directory)
ListDir(d, path) ==
    {p[Len(p)] : p \in {q \in d.dirs \cup d.files :
                          Len(q) = Len(path) + 1 /\ SubSeq(q, 1, Len(path)) = path}}

\* the orders in which os.listdir may return a set of names
Orders(S) ==
    {f \in [1..Cardinality(S) -> S] : \A i, j \in 1..Cardinality(S) : f[i] = f[j] => i = j}

\* the orders a call that goes through get_build_list may see: os.listdir is
\* called only when _build_list is None
ScanOrders(d, bl) == IF bl = None THEN Orders(ListDir(d, Root)) ELSE {<<>>}

VersionDirs(d) == {p \in d.dirs : Len(p) = 3}

\* the (platform, version) pairs that are directories on disk
DiskPairs(d) == {<<p[2], p[3]>> : p \in VersionDirs(d)}

----------------------------------------------------------------------------
(* BuildInfo *)

\* the attributes a BuildInfo object has besides those __init__ assigns:
\* the methods of the class
BuildInfoMethods == {"get", "get_or_create", "read", "write"}

\* BuildInfo.read: pass.  It assigns none of the six optional attributes.
read(info) == info

\* BuildInfo.__init__ with the existence test made on build_path, the build's
\* directory, instead of build_info_path
BuildInfo_ExistsBuildPath(d, build_path, platform, version) ==
    LET path == Join(Join(build_path, platform), version)
        info_path == Join(path, SidecarName)
        info == [build_path |-> path, build_info_path |-> info_path,
                 platform |-> platform, version |-> version, optional |-> "unset"]
    IN  IF Exists(d, path)
        THEN read(info)
        ELSE [info EXCEPT !.optional = "None"]

\* BuildInfo.__init__.  optional is "None" when the six optional attributes
\* (status, app_path, exec_path, zip_path, branch, commit) were all assigned
\* None, and "unset" when the sidecar exists and read() ran instead, which
\* assigns none of them.
BuildInfo(d, build_path, platform, version) ==
    LET path == Join(Join(build_path, platform), version)
        info_path == Join(path, SidecarName)
        info == [build_path |-> path, build_info_path |-> info_path,
                 platform |-> platform, version |-> version, optional |-> "unset"]
    IN  IF Exists(d, info_path)
        THEN read(info)
        ELSE [info EXCEPT !.optional = "None"]

\* the identity of a record
Identity(b) == <<b.platform, b.version>>

----------------------------------------------------------------------------
(* BuildDir: the methods, as functions from the registry's _build_list (bl) *)
(* and the disk (d) to the new _build_list and the exception raised, if any. *)
(* ord is the order in which os.listdir returns the entries of BUILD_DIR.    *)

Ok(bl) == [bl |-> bl, err |-> "ok"]
Raise(bl, e) == [bl |-> bl, err |-> e]

\* set.add of an object that is not yet an element
SetAdd(bag, build) == bag (+) SetToBag({build})

RECURSIVE load(_, _, _)

\* BuildDir.get_build_list
get_build_list(d, ord, bl) ==
    IF bl = None
    THEN load(d, ord, Some(EmptyBag))
    ELSE Ok(bl)

\* BuildDir.add_build
add_build(d, ord, bl, build) ==
    LET r == get_build_list(d, ord, bl)
    IN  IF r.err # "ok" THEN r ELSE Ok(Some(SetAdd(r.bl[1], build)))

\* the inner loop of load: for version_folder in os.listdir(path).  The order of
\* the versions of one platform does not change the result: vs is taken in any.
RECURSIVE LoadVersions(_, _, _, _, _)
LoadVersions(d, ord, bl, platform_folder, vs) ==
    IF vs = {} THEN Ok(bl)
    ELSE LET version_folder == CHOOSE v \in vs : TRUE
             r == add_build(d, ord, bl,
                            BuildInfo(d, Root, platform_folder, version_folder))
         IN  IF r.err # "ok" THEN r
             ELSE LoadVersions(d, ord, r.bl, platform_folder, vs \ {version_folder})

\* the outer loop of load: for platform_folder in os.listdir(base_path), from
\* the i-th entry on.  os.listdir of a plain file raises NotADirectoryError.
RECURSIVE LoadPlatforms(_, _, _, _)
LoadPlatforms(d, ord, bl, i) ==
    IF i > Len(ord) THEN Ok(bl)
    ELSE LET path == Join(Root, ord[i])
         IN  IF path \in d.files THEN Raise(bl, "NotADirectoryError")
             ELSE LET r == LoadVersions(d, ord, bl, ord[i], ListDir(d, path))
                  IN  IF r.err # "ok" THEN r ELSE LoadPlatforms(d, ord, r.bl, i + 1)

\* load without its os.path.exists test: os.listdir of a missing directory raises
load_NoExistsCheck(d, ord, bl) ==
    IF ~Exists(d, Root) THEN Raise(bl, "FileNotFoundError")
    ELSE LoadPlatforms(d, ord, bl, 1)

\* BuildDir.load
load(d, ord, bl) ==
    IF ~Exists(d, Root) THEN Ok(bl) ELSE LoadPlatforms(d, ord, bl, 1)

\* BuildDir.rebuild
rebuild(bl) == None

\* the builds get_build's loop may return: the first match in the set's
\* iteration order, which is any of the matches
Matches(bag, platform, version) ==
    {b \in BagToSet(bag) : PyEq(b.platform, platform) /\ b.version = version}

\* BuildDir.get_build: the outcomes [bl, err, ret]
get_build(d, ord, bl, platform, version) ==
    LET r == get_build_list(d, ord, bl)
    IN  IF r.err # "ok" THEN {[bl |-> r.bl, err |-> r.err, ret |-> None]}
        ELSE IF Matches(r.bl[1], platform, version) = {}
             THEN {[bl |-> r.bl, err |-> "ok", ret |-> None]}
             ELSE {[bl |-> r.bl, err |-> "ok", ret |-> Some(b)] :
                      b \in Matches(r.bl[1], platform, version)}

\* BuildDir.get_or_create_build, after get_build returned g
CreateIfNone(d, ord, g, platform, version) ==
    IF g.err # "ok" \/ g.ret # None THEN g
    ELSE IF ~HasPlatformAttr(platform)
         THEN [bl |-> g.bl, err |-> "AttributeError", ret |-> None]
         ELSE LET build_info == BuildInfo(d, Root, platform.name, version)
                  a == add_build(d, ord, g.bl, build_info)
              IN  [bl |-> a.bl, err |-> a.err,
                   ret |-> IF a.err = "ok" THEN Some(build_info) ELSE None]

\* BuildDir.get_or_create_build: the outcomes [bl, err, ret]
get_or_create_build(d, ord, bl, platform, version) ==
    {CreateIfNone(d, ord, g, platform, version) :
        g \in get_build(d, ord, bl, platform, version)}

\* the names that resolve inside BuildDir.clean: its locals and the module's
\* globals.  build_dir, the argument of shutil.rmtree, is not among them.
NamesInClean ==
    {"self", "builds", "build_info", "shutil",
     "argparse", "os", "BUILD_DIR", "parse_cli_args", "PlatformInfo", "BuildDir",
     "BuildInfo", "build_target", "fetch_build", "run_build",
     "ask_user_if_build_ok", "publish_build", "clean_builds"}

\* shutil.rmtree
rmtree(d, path) ==
    LET Under(q) == Len(q) >= Len(path) /\ SubSeq(q, 1, Len(path)) = path
    IN  [dirs |-> {q \in d.dirs : ~Under(q)}, files |-> {q \in d.files : ~Under(q)}]

\* clean without its os.path.exists test
clean_NoExistsCheck(d, ord, bl) ==
    LET r == get_build_list(d, ord, bl)
    IN  IF r.err # "ok" THEN [disk |-> d, bl |-> r.bl, err |-> r.err]
        ELSE IF r.bl[1] # EmptyBag
             THEN [disk |-> d, bl |-> r.bl, err |-> "AttributeError"]
             ELSE [disk |-> d, bl |-> r.bl, err |-> "NameError"]

\* BuildDir.clean: the new disk and _build_list, and the exception raised
clean(d, ord, bl) ==
    IF ~Exists(d, Root) THEN [disk |-> d, bl |-> bl, err |-> "ok"]
    ELSE LET r == get_build_list(d, ord, bl)
         IN  IF r.err # "ok" THEN [disk |-> d, bl |-> r.bl, err |-> r.err]
             \* build_info.exists() for every build of the list
             ELSE IF r.bl[1] # EmptyBag /\ "exists" \notin BuildInfoMethods
                  THEN [disk |-> d, bl |-> r.bl, err |-> "AttributeError"]
             \* shutil.rmtree(build_dir)
             ELSE IF "build_dir" \notin NamesInClean
                  THEN [disk |-> d, bl |-> r.bl, err |-> "NameError"]
             ELSE [disk |-> rmtree(d, Root), bl |-> Some(EmptyBag), err |-> "ok"]

----------------------------------------------------------------------------
(* The state machine: one action per call on the registry, and the file    *)
(* system changing underneath it.                                          *)

Call(op, args, ret, err) == [op |-> op, args |-> args, ret |-> ret, err |-> err]

\* the cap on the registry's size
Fits(bl) == IF bl = None THEN TRUE ELSE BagCardinality(bl[1]) <= MaxBuilds

\* no run of the script
NoDriver == [pc |-> "idle"]

\* module load and class definition: no directory yet, BuildDir.instance = None
Init ==
    /\ disk = [dirs |-> {}, files |-> {}]
    /\ instance = "None"
    /\ build_list = None
    /\ last = Call("start", <<>>, None, "ok")
    /\ driver = NoDriver

\* BuildDir.get with a test that never finds the instance: a new BuildDir on
\* every call
get_AlwaysNew(inst) == IF inst = "BuildDir" THEN "BuildDir2" ELSE "BuildDir"

\* BuildDir.get: the instance it returns, a new one only when there is none
get(inst) == IF inst = "None" THEN "BuildDir" ELSE inst

\* BuildDir.get, as every call on the registry starts
BuildDirGet == instance' = get(instance)

\* _build_list of the instance BuildDir.get returns: None in a new instance
\* (BuildDir.__init__)
SelfList == IF get(instance) = instance THEN build_list ELSE None

\* BuildDir.get_builds: BuildDir.get().get_build_list()
GetBuildList ==
    \E ord \in ScanOrders(disk, SelfList) :
        LET r == get_build_list(disk, ord, SelfList)
        IN  /\ Fits(r.bl)
            /\ BuildDirGet
            /\ build_list' = r.bl
            /\ last' = Call("get_build_list", <<>>, None, r.err)
            /\ UNCHANGED <<disk, driver>>

\* BuildDir.get().load()
Load ==
    \E ord \in Orders(ListDir(disk, Root)) :
        LET r == load(disk, ord, SelfList)
        IN  /\ Fits(r.bl)
            /\ BuildDirGet
            /\ build_list' = r.bl
            /\ last' = Call("load", <<>>, None, r.err)
            /\ UNCHANGED <<disk, driver>>

\* BuildDir.get().rebuild()
Rebuild ==
    /\ BuildDirGet
    /\ build_list' = rebuild(SelfList)
    /\ last' = Call("rebuild", <<>>, None, "ok")
    /\ UNCHANGED <<disk, driver>>

\* BuildInfo.get(platform, version), as run_build calls it
GetBuild(platform, version) ==
    \E ord \in ScanOrders(disk, SelfList) :
        \E r \in get_build(disk, ord, SelfList, platform, version) :
            /\ Fits(r.bl)
            /\ BuildDirGet
            /\ build_list' = r.bl
            /\ last' = Call("get_build", <<platform, version>>, r.ret, r.err)
            /\ UNCHANGED <<disk, driver>>

\* BuildInfo.get_or_create(platform, version), as build_target and fetch_build
\* call it
GetOrCreateBuild(platform, version) ==
    \E ord \in ScanOrders(disk, SelfList) :
        \E r \in get_or_create_build(disk, ord, SelfList, platform, version) :
            /\ Fits(r.bl)
            /\ BuildDirGet
            /\ build_list' = r.bl
            /\ last' = Call("get_or_create_build", <<platform, version>>, r.ret, r.err)
            /\ UNCHANGED <<disk, driver>>

\* BuildDir.get().add_build(BuildInfo(path, platform, version)), platform a str
AddBuild(platform, version) ==
    \E ord \in ScanOrders(disk, SelfList) :
        LET r == add_build(disk, ord, SelfList,
                           BuildInfo(disk, Root, platform, version))
        IN  /\ Fits(r.bl)
            /\ BuildDirGet
            /\ build_list' = r.bl
            /\ last' = Call("add_build", <<Str(platform), version>>, None, r.err)
            /\ UNCHANGED <<disk, driver>>

\* clean_builds: BuildDir.get().clean()
Clean ==
    \E ord \in ScanOrders(disk, SelfList) :
        LET r == clean(disk, ord, SelfList)
        IN  /\ Fits(r.bl)
            /\ BuildDirGet
            /\ build_list' = r.bl
            /\ disk' = r.disk
            /\ last' = Call("clean", <<>>, None, r.err)
            /\ UNCHANGED driver

\* the directories and files something outside the program may create
DirPaths ==
    {Root} \cup {Join(Root, p) : p \in Platforms}
           \cup {Join(Join(Root, p), v) : p \in Platforms, v \in Versions}

\* one plain file directly under BUILD_DIR, and one sidecar: records of
\* mac/latest are built with it, all others without
FilePaths ==
    {Join(Root, JunkName), Join(Join(Join(Root, "mac"), "latest"), SidecarName)}

Parent(path) == SubSeq(path, 1, Len(path) - 1)

\* os.mkdir(path) by the build itself or by the user
Mkdir(path) ==
    /\ ~Exists(disk, path)
    /\ path = Root \/ Parent(path) \in disk.dirs
    /\ disk' = [disk EXCEPT !.dirs = @ \cup {path}]
    /\ last' = Call("mkdir", <<>>, None, "ok")
    /\ UNCHANGED <<instance, build_list, driver>>

\* a plain file appears: a build_info.yaml in a version directory, or a file
\* directly under BUILD_DIR
Touch(path) ==
    /\ ~Exists(disk, path)
    /\ Parent(path) \in disk.dirs
    /\ disk' = [disk EXCEPT !.files = @ \cup {path}]
    /\ last' = Call("touch", <<>>, None, "ok")
    /\ UNCHANGED <<instance, build_list, driver>>

Next ==
    \/ GetBuildList
    \/ Load
    \/ Rebuild
    \/ \E platform \in PlatformArgs, version \in Versions : GetBuild(platform, version)
    \/ \E platform \in PlatformArgs, version \in Versions :
          GetOrCreateBuild(platform, version)
    \/ \E platform \in Platforms, version \in Versions : AddBuild(platform, version)
    \/ Clean
    \/ \E path \in DirPaths : Mkdir(path)
    \/ \E path \in FilePaths : Touch(path)

Spec == Init /\ [][Next]_vars

----------------------------------------------------------------------------
(* PlatformInfo(platform, arch) over the arguments a caller may pass *)

PlatformInputs ==
    {"mac", "Mac", "macos", "MacOS", "win", "win32", "WIN32", "win64",
     "windows", "linux", "freebsd", ""}
ArchInputs == {"x86_64", "X86_64", "x86", "arm64", "x64", "64", ""}

InitPlatform ==
    /\ disk = [dirs |-> {}, files |-> {}]
    /\ instance = "None"
    /\ build_list = None
    /\ driver = NoDriver
    /\ \E platform \in PlatformInputs, arch \in ArchInputs :
        last = Call("arguments", <<platform, arch>>, None, "ok")

\* PlatformInfo(platform, arch)
Construct ==
    /\ last.op = "arguments"
    /\ LET r == PlatformInfoInit(last.args[1], last.args[2])
       IN  last' = Call("PlatformInfo", last.args,
                        IF r.err = "ok" THEN Some(<<r.platform, r.arch>>) ELSE None,
                        r.err)
    /\ UNCHANGED <<disk, instance, build_list, driver>>

NextPlatform == Construct

SpecPlatform == InitPlatform /\ [][NextPlatform]_vars

----------------------------------------------------------------------------
(* BuildInfo(build_path, platform, version) over the directories it may meet *)

\* BUILD_DIR, by the directory the script is started from
BuildDirs == {<<"Builds">>, <<"..", "Builds">>}

\* a name beside the sidecar that differs from it by the suffix only
StemName == "build_info"

\* the paths from root down to path, both included
Ancestors(root, path) ==
    {SubSeq(path, 1, n) : n \in Len(root)..Len(path)}

\* what the disk may hold at a build's directory: nothing, the directory, and
\* in it any of the files build_info.yaml and build_info
RecordDisks(root, platform, version) ==
    LET path == Join(Join(root, platform), version)
    IN  {[dirs |-> {}, files |-> {}]} \cup
        {[dirs |-> Ancestors(root, path), files |-> {Join(path, n) : n \in names}]
            : names \in SUBSET {SidecarName, StemName}}

InitRecord ==
    /\ instance = "None"
    /\ build_list = None
    /\ driver = NoDriver
    /\ \E root \in BuildDirs, platform \in ALL_PLATFORMS, version \in Versions :
        /\ disk \in RecordDisks(root, platform, version)
        /\ last = Call("arguments", <<root, platform, version>>, None, "ok")

\* BuildInfo(build_path, platform, version)
ConstructRecord ==
    /\ last.op = "arguments"
    /\ last' = Call("BuildInfo", last.args,
                    Some(BuildInfo(disk, last.args[1], last.args[2], last.args[3])),
                    "ok")
    /\ UNCHANGED <<disk, instance, build_list, driver>>

NextRecord == ConstructRecord

SpecRecord == InitRecord /\ [][NextRecord]_vars

----------------------------------------------------------------------------
(* One run of the script: the statements under __main__.  driver.pc is the   *)
(* statement to run next, driver.argv the arguments as given, driver.fetch   *)
(* and driver.version the values of args.fetch and args.version as the       *)
(* script rewrites them, driver.todo the targets the build loop has not      *)
(* reached yet, and driver.log the operations called so far.  An exception   *)
(* that leaves a statement ends the run (pc "aborted"); exit() ends it too   *)
(* (pc "exited").                                                           *)

\* platform.platform().lower() on some hosts
Hosts ==
    {"darwin-19.6.0-x86_64-i386-64bit",
     "linux-5.4.0-x86_64-with-glibc2.29",
     "windows-10-10.0.19041-sp0",
     "freebsd-13.0-release-amd64-64bit"}

\* PlatformInfo.current: the exception raised, or the platform detected
current(platform_info) ==
    LET current_platform ==
            IF InStr("darwin", platform_info) THEN Some("mac")
            ELSE IF InStr("windows", platform_info) THEN Some("windows")
            ELSE IF InStr("linux", platform_info) THEN Some("linux")
            ELSE None
    IN  IF current_platform = None
        THEN [err |-> "Exception", platform |-> ""]
        ELSE IF ~InStr("64", platform_info)
        THEN [err |-> "Exception", platform |-> ""]
        ELSE LET r == PlatformInfoInit(current_platform[1], "x86_64")
             IN  [err |-> r.err, platform |-> r.platform]

\* PlatformInfo.all: the platforms of the PlatformInfo objects it yields
all == {PlatformInfoInit(p, "x86_64").platform : p \in ALL_PLATFORMS}

\* build_targets as the script resolves it from the arguments: the exception
\* raised, or the platforms of the PlatformInfo objects in the set
BuildTargets(argv, current_platform) ==
    IF argv.build_all THEN [err |-> "ok", targets |-> all]
    ELSE IF argv.build_target # None
    THEN LET r == PlatformInfoInit(argv.build_target[1], "x86_64")
         IN  IF r.err = "ok" THEN [err |-> "ok", targets |-> {r.platform}]
             ELSE [err |-> r.err, targets |-> {}]
    ELSE IF argv.build_current THEN [err |-> "ok", targets |-> {current_platform}]
    ELSE [err |-> "ok", targets |-> {}]

\* args.fetch left as it was given, whatever the build targets
FetchAfterTargets_Kept(build_targets, fetch) == fetch

\* args.fetch after `if build_targets and args.fetch: args.fetch = False`
FetchAfterTargets(build_targets, fetch) ==
    IF build_targets # {} /\ fetch THEN FALSE ELSE fetch

\* the statements in an order that builds before it cleans
NextPc_BuildBeforeClean(pc) ==
    CASE pc = "current" -> "resolve"
      [] pc = "resolve" -> "build"
      [] pc = "build"   -> "clean"
      [] pc = "clean"   -> "fetch"
      [] pc = "fetch"   -> "run"
      [] pc = "run"     -> "ask"
      [] pc = "ask"     -> "publish"
      [] pc = "publish" -> "done"

\* the statement that follows statement pc in the script
NextPc(pc) ==
    CASE pc = "current" -> "resolve"
      [] pc = "resolve" -> "clean"
      [] pc = "clean"   -> "build"
      [] pc = "build"   -> "fetch"
      [] pc = "fetch"   -> "run"
      [] pc = "run"     -> "ask"
      [] pc = "ask"     -> "publish"
      [] pc = "publish" -> "done"

\* the answers the user may type to "is build ok? y/n"
Answers == {"y", "Yes", "n", "NO", "ok", ""}

\* what parse_cli_args may return
Argvs ==
    [version       : {None, Some("v0.2.1")},
     build_target  : {None, Some("mac"), Some("win32"), Some("amiga")},
     build_all     : BOOLEAN,
     build_current : BOOLEAN,
     run           : BOOLEAN,
     fetch         : BOOLEAN,
     publish       : BOOLEAN,
     clean         : BOOLEAN]

\* what BUILD_DIR may hold when the script starts
DriverDisks ==
    {[dirs |-> {}, files |-> {}],
     [dirs |-> {Root}, files |-> {}],
     [dirs |-> {Root}, files |-> {Join(Root, JunkName)}],
     [dirs |-> Ancestors(Root, Join(Join(Root, "mac"), "latest")), files |-> {}]}

InitDriver ==
    /\ disk \in DriverDisks
    /\ instance = "None"
    /\ build_list = None
    /\ last = Call("start", <<>>, None, "ok")
    /\ \E argv \in Argvs :
        driver = [pc |-> "current", argv |-> argv, fetch |-> argv.fetch,
                  version |-> argv.version, current_platform |-> "",
                  build_targets |-> {}, todo |-> {}, log |-> <<>>]

\* the run after a statement: on to the next one, or ended by the exception
After(d, err) ==
    [d EXCEPT !.pc = IF err = "ok" THEN NextPc(d.pc) ELSE "aborted"]

Logged(d, op) == [d EXCEPT !.log = Append(d.log, op)]

\* current_platform = PlatformInfo.current()
DetectPlatform ==
    /\ driver.pc = "current"
    /\ \E platform_info \in Hosts :
        LET r == current(platform_info)
        IN  /\ driver' = After([driver EXCEPT !.current_platform = r.platform], r.err)
            /\ last' = Call("PlatformInfo.current", <<platform_info>>, None, r.err)
    /\ UNCHANGED <<disk, instance, build_list>>

\* build_targets resolved, --fetch dropped if there is a target, args.version
\* defaulted
ResolveTargets ==
    /\ driver.pc = "resolve"
    /\ LET r == BuildTargets(driver.argv, driver.current_platform)
       IN  /\ driver' = After([driver EXCEPT
                                 !.build_targets = r.targets,
                                 !.todo = r.targets,
                                 !.fetch = IF r.err = "ok"
                                           THEN FetchAfterTargets(r.targets, driver.argv.fetch)
                                           ELSE driver.argv.fetch,
                                 !.version = IF r.err = "ok" /\ driver.argv.version = None
                                             THEN Some("latest")
                                             ELSE driver.argv.version],
                              r.err)
           /\ last' = Call("build_targets", <<>>, None, r.err)
    /\ UNCHANGED <<disk, instance, build_list>>

\* if args.clean: clean_builds()
DoClean ==
    /\ driver.pc = "clean"
    /\ IF driver.argv.clean
       THEN \E ord \in ScanOrders(disk, SelfList) :
                LET r == clean(disk, ord, SelfList)
                IN  /\ BuildDirGet
                    /\ build_list' = r.bl
                    /\ disk' = r.disk
                    /\ last' = Call("clean", <<>>, None, r.err)
                    /\ driver' = After(Logged(driver, "clean"), r.err)
       ELSE /\ driver' = After(driver, "ok")
            /\ UNCHANGED <<disk, instance, build_list, last>>

\* for target in build_targets: build_target(target, args.version), one turn
\* of the loop, the set yielding its elements in any order
DoBuild ==
    /\ driver.pc = "build"
    /\ IF driver.todo # {}
       THEN \E target \in driver.todo :
            \E ord \in ScanOrders(disk, SelfList) :
            \E r \in get_or_create_build(disk, ord, SelfList,
                                         PlatformInfo(target), driver.version[1]) :
                /\ BuildDirGet
                /\ build_list' = r.bl
                /\ last' = Call("build_target", <<PlatformInfo(target), driver.version[1]>>,
                                r.ret, r.err)
                /\ driver' = IF r.err = "ok"
                             THEN Logged([driver EXCEPT !.todo = @ \ {target}], "build")
                             ELSE After(Logged(driver, "build"), r.err)
                /\ UNCHANGED disk
       ELSE /\ driver' = After(driver, "ok")
            /\ UNCHANGED <<disk, instance, build_list, last>>

\* if args.fetch: fetch_build(current_platform, args.version)
DoFetch ==
    /\ driver.pc = "fetch"
    /\ IF driver.fetch
       THEN \E ord \in ScanOrders(disk, SelfList) :
            \E r \in get_or_create_build(disk, ord, SelfList,
                                         PlatformInfo(driver.current_platform),
                                         driver.version[1]) :
                /\ BuildDirGet
                /\ build_list' = r.bl
                /\ last' = Call("fetch_build",
                                <<PlatformInfo(driver.current_platform), driver.version[1]>>,
                                r.ret, r.err)
                /\ driver' = After(Logged(driver, "fetch"), r.err)
                /\ UNCHANGED disk
       ELSE /\ driver' = After(driver, "ok")
            /\ UNCHANGED <<disk, instance, build_list, last>>

\* if args.run: run_build(current_platform, args.version)
DoRun ==
    /\ driver.pc = "run"
    /\ IF driver.argv.run
       THEN \E ord \in ScanOrders(disk, SelfList) :
            \E r \in get_build(disk, ord, SelfList,
                               PlatformInfo(driver.current_platform), driver.version[1]) :
                /\ BuildDirGet
                /\ build_list' = r.bl
                /\ last' = Call("run_build",
                                <<PlatformInfo(driver.current_platform), driver.version[1]>>,
                                r.ret, r.err)
                /\ driver' = After(Logged(driver, "run"), r.err)
                /\ UNCHANGED disk
       ELSE /\ driver' = After(driver, "ok")
            /\ UNCHANGED <<disk, instance, build_list, last>>

\* if args.publish and args.run: ask_user_if_build_ok(), one answer read: the
\* run goes on, exits, or asks again
DoAsk ==
    /\ driver.pc = "ask"
    /\ IF driver.argv.publish /\ driver.argv.run
       THEN \E answer \in Answers :
                LET result == lower(answer)
                    asked == IF driver.log # <<>> /\ driver.log[Len(driver.log)] = "ask"
                             THEN driver ELSE Logged(driver, "ask")
                IN  /\ driver' = IF InStr("y", result) THEN After(asked, "ok")
                                 ELSE IF InStr("n", result)
                                 THEN [asked EXCEPT !.pc = "exited"]
                                 ELSE asked
                    /\ last' = Call("ask_user_if_build_ok", <<answer>>, None, "ok")
                    /\ UNCHANGED <<disk, instance, build_list>>
       ELSE /\ driver' = After(driver, "ok")
            /\ UNCHANGED <<disk, instance, build_list, last>>

\* if args.publish: publish_build(args.version)
DoPublish ==
    /\ driver.pc = "publish"
    /\ IF driver.argv.publish
       THEN /\ driver' = After(Logged(driver, "publish"), "ok")
            /\ last' = Call("publish_build", <<driver.version[1]>>, None, "ok")
            /\ UNCHANGED <<disk, instance, build_list>>
       ELSE /\ driver' = After(driver, "ok")
            /\ UNCHANGED <<disk, instance, build_list, last>>

NextDriver ==
    \/ DetectPlatform
    \/ ResolveTargets
    \/ DoClean
    \/ DoBuild
    \/ DoFetch
    \/ DoRun
    \/ DoAsk
    \/ DoPublish

SpecDriver == InitDriver /\ [][NextDriver]_vars

----------------------------------------------------------------------------
(* Properties *)

\* how many records of the registry have the identity id
CountIdentity(bl, id) ==
    IF bl = None THEN 0
    ELSE LET same == {b \in BagToSet(bl[1]) : Identity(b) = id}
         IN  BagCardinality([b \in same |-> bl[1][b]])

\* the identity a caller names by (platform, version)
IdentityOf(platform, version) == <<platform.name, version>>

Identities == Platforms \X Versions

\* C1: get_or_create_build called twice in a row with the same (platform,
\* version), neither call raising, returns a record of that identity both
\* times and leaves exactly one record of that identity in the registry.
C1_GetOrCreateTwice ==
    [][\A platform \in PlatformArgs, version \in Versions :
        (/\ last.op = "get_or_create_build"
         /\ last.args = <<platform, version>>
         /\ last.err = "ok"
         /\ GetOrCreateBuild(platform, version)
         /\ last'.err = "ok")
        => (/\ last.ret # None /\ last'.ret # None
            /\ Identity(last.ret[1]) = IdentityOf(platform, version)
            /\ Identity(last'.ret[1]) = IdentityOf(platform, version)
            /\ CountIdentity(build_list', IdentityOf(platform, version)) = 1)]_vars

\* C2: identity invariant: the registry never holds two records with the same
\* (platform, version), whatever sequence of calls was made.
C2_IdentityInvariant ==
    \A id \in Identities : CountIdentity(build_list, id) <= 1

\* the registry holds, or would find on disk, at least one record
HasRecords ==
    IF build_list = None THEN DiskPairs(disk) # {} ELSE build_list[1] # EmptyBag

\* C3: clean() on an existing root directory, the registry having N > 0
\* records, leaves the registry loaded and empty and the root directory gone.
C3_CleanEmptiesAndRemoves ==
    [][(Exists(disk, Root) /\ HasRecords /\ Clean)
        => (build_list' = Some(EmptyBag) /\ ~Exists(disk', Root))]_vars

\* the registry holds exactly the one record (platform, version), built without
\* a sidecar
OnlyRecord(bl, platform, version) ==
    /\ bl # None
    /\ BagCardinality(bl[1]) = 1
    /\ \A b \in BagToSet(bl[1]) :
          /\ Identity(b) = <<platform, version>>
          /\ b.build_path = <<BUILD_DIR, platform, version>>
          /\ b.optional = "None"

\* C4: from a root with no builds, get_or_create_build(linux, v0.2.1), the
\* platform passed as the driver passes it, leaves exactly that one record, its
\* build_path ending in linux/v0.2.1 and its optional fields None; clean() right
\* after it leaves the registry empty and the root directory absent.
C4_CreateThenClean ==
    [][/\ (/\ DiskPairs(disk) = {}
           /\ build_list = None
           /\ GetOrCreateBuild(PlatformInfo("linux"), "v0.2.1"))
          => (last'.err = "ok" /\ OnlyRecord(build_list', "linux", "v0.2.1"))
       /\ (/\ DiskPairs(disk) = {}
           /\ last.op = "get_or_create_build"
           /\ last.err = "ok"
           /\ OnlyRecord(build_list, "linux", "v0.2.1")
           /\ Clean)
          => (/\ last'.err = "ok"
              /\ build_list' = Some(EmptyBag)
              /\ ~Exists(disk', Root))]_vars

\* C5: get_build right after a get_or_create_build that returned a record,
\* called with the same arguments, returns that record.
C5_FindAfterGetOrCreate ==
    [][(/\ last.op = "get_or_create_build"
        /\ last.err = "ok"
        /\ GetBuild(last.args[1], last.args[2]))
        => (last'.err = "ok" /\ last'.ret = last.ret)]_vars

\* the records of a scan that finds every pair once, none with a sidecar
OnePerPair(d) == SetToBag({BuildInfo(d, Root, id[1], id[2]) : id \in DiskPairs(d)})

\* C6: load() on a fresh registry, over a root that holds only
\* platform/version directories, at least one, (no plain file anywhere), leaves
\* exactly one record per pair, each with its optional fields None.
C6_LoadOnePerPair ==
    [][(/\ build_list = None
        /\ disk.files = {}
        /\ DiskPairs(disk) # {}
        /\ Load)
        => (/\ last'.err = "ok"
            /\ build_list' = Some(OnePerPair(disk))
            /\ \A b \in BagToSet(build_list'[1]) : b.optional = "None")]_vars

\* C7, as claimed: load() over a missing root directory raises nothing and
\* leaves the registry loaded and empty.
C7_LoadMissingRootLoadedEmpty ==
    [][(~Exists(disk, Root) /\ Load)
        => (last'.err = "ok" /\ build_list' = Some(EmptyBag))]_vars

\* C7, amended: load() over a missing root directory raises nothing and leaves
\* _build_list as it was (None stays None); get_build_list() on an unloaded
\* registry over a missing root raises nothing and leaves the registry loaded
\* and empty.
C7_LoadMissingRootUnchanged ==
    [][~Exists(disk, Root)
        => /\ Load => (last'.err = "ok" /\ build_list' = build_list)
           /\ (build_list = None /\ GetBuildList)
                 => (last'.err = "ok" /\ build_list' = Some(EmptyBag))]_vars

\* C7, the case: load() has run on an unloaded registry over a missing root
C7_Witness ==
    /\ last.op = "load"
    /\ last.err = "ok"
    /\ ~Exists(disk, Root)
    /\ build_list = None

\* every (platform, version) directory of d has a record in the registry
HoldsDiskPairs(bl, d) == \A id \in DiskPairs(d) : CountIdentity(bl, id) >= 1

\* C8: once the registry is loaded, get_build_list and get_build leave it as
\* it is, whatever was added to the disk since; and the first get_build_list
\* after rebuild() returns, holding a record for every (platform, version)
\* directory on disk.
C8_StaleUntilInvalidated ==
    [][/\ (/\ build_list # None
           /\ \/ GetBuildList
              \/ \E platform \in PlatformArgs, version \in Versions :
                    GetBuild(platform, version))
          => build_list' = build_list
       /\ (last.op = "rebuild" /\ DiskPairs(disk) # {} /\ GetBuildList)
          => (last'.err = "ok" /\ HoldsDiskPairs(build_list', disk))]_vars

\* C9: after any get_build_list the registry is not None; when the call
\* scanned the disk it holds a record for every (platform, version) directory
\* on disk at that time; and it still holds every record it held before.
C9_RecordsReflectDiskAndMemory ==
    [][GetBuildList
        => (/\ build_list' # None
            /\ build_list = None => HoldsDiskPairs(build_list', disk)
            /\ build_list # None => build_list' = build_list)]_vars

\* C10: get_build of an identity that is neither in the registry nor on disk
\* returns None and raises nothing, whether the registry is unloaded or loaded
\* and whatever the root directory holds.
C10_FindUnknownReturnsNone ==
    [][\A platform \in PlatformArgs, version \in Versions :
        (/\ CountIdentity(build_list, IdentityOf(platform, version)) = 0
         /\ IdentityOf(platform, version) \notin DiskPairs(disk)
         /\ GetBuild(platform, version))
        => (last'.err = "ok" /\ last'.ret = None)]_vars

\* C11: clean() while the root directory does not exist is a no-op: it raises
\* nothing and leaves the disk and the record set as they were.
C11_CleanMissingRootNoOp ==
    [][(~Exists(disk, Root) /\ Clean)
        => /\ last'.err = "ok"
           /\ disk' = disk
           /\ build_list' = SelfList]_vars

\* clean() has returned on a missing root, the registry holding a record
C11_Witness ==
    /\ last.op = "clean"
    /\ last.err = "ok"
    /\ ~Exists(disk, Root)
    /\ HasRecords

\* the platform and architecture a target names: lower case, an alias replaced
\* by the pair it stands for
Canonical(platform, arch) ==
    IF lower(platform) \in DOMAIN PLATFORM_ALIASES
    THEN PLATFORM_ALIASES[lower(platform)]
    ELSE <<lower(platform), lower(arch)>>

\* C12: constructing a target succeeds only when its canonical platform is one
\* of mac, windows, linux and its canonical architecture is exactly x86_64;
\* every other platform and every other architecture is rejected.
C12_OnlyX86_64Accepted ==
    (last.op = "PlatformInfo" /\ last.err = "ok")
    => /\ Canonical(last.args[1], last.args[2])[1] \in {"mac", "windows", "linux"}
       /\ Canonical(last.args[1], last.args[2])[2] = "x86_64"

\* the record BuildInfo(root, platform, version) has returned
Constructed == last.op = "BuildInfo" /\ last.err = "ok"

\* read() ran in the constructor: none of the six attributes was assigned
ReadRan(b) == b.optional = "unset"

\* build_path is root/platform/version, build_info_path is build_path/name,
\* and read() ran exactly when the file build_path/name exists
LayoutWith(name) ==
    LET b == last.ret[1]
        path == last.args[1] \o <<last.args[2], last.args[3]>>
    IN  /\ b.build_path = path
        /\ b.build_info_path = path \o <<name>>
        /\ ReadRan(b) <=> Exists(disk, path \o <<name>>)

\* C13 as stated: the metadata path of a constructed record is
\* root/platform/version/build_info, and readMetadata() is invoked exactly when
\* the file at that path exists.
C13_SidecarIsBuildInfo == Constructed => LayoutWith("build_info")

\* C13: the build path of a constructed record is root/platform/version, its
\* metadata path is root/platform/version/build_info.yaml, and read() is invoked
\* exactly when the file at that path exists.
C13_SidecarIsBuildInfoYaml == Constructed => LayoutWith("build_info.yaml")

\* a record was constructed over a directory holding build_info.yaml and no
\* build_info, and read() ran
C13_Witness ==
    /\ Constructed
    /\ ReadRan(last.ret[1])
    /\ Exists(disk, last.ret[1].build_info_path)
    /\ ~Exists(disk, Join(last.ret[1].build_path, StemName))

\* C14: BuildDir.get creates the instance on the first call only and returns
\* that instance ever after; no call replaces it, and its records go back to
\* unloaded by rebuild() only.
C14_SingletonKept ==
    [][/\ instance # "None" => instance' = instance
       /\ (build_list # None /\ build_list' = None) => last'.op = "rebuild"]_vars

\* the instance after clean() was called on a loaded registry
C14_Witness ==
    /\ instance = "BuildDir"
    /\ last.op = "clean"
    /\ build_list # None

\* C15: clean() on an existing root directory computes the record set, then
\* deletes the root's subtree, then resets the records; it returns with the root
\* gone and the registry loaded and empty (not unloaded), so that the next
\* get_build_list() scans nothing.
C15_CleanDeletesThenResets ==
    [][(Exists(disk, Root) /\ Clean)
        => /\ last'.err = "ok"
           /\ ~Exists(disk', Root)
           /\ build_list' = Some(EmptyBag)]_vars

\* C16: every constructed record has its six optional fields (status,
\* app_path, exec_path, zip_path, branch, commit) set to None, whether or not
\* its sidecar exists, and its construction raises nothing.
C16_OptionalFieldsNone ==
    last.op = "BuildInfo"
    => (last.err = "ok" /\ last.ret[1].optional = "None")

\* the identities of the records a registry holds
IdentitiesIn(bl) ==
    IF bl = None THEN {} ELSE {Identity(b) : b \in BagToSet(bl[1])}

\* C17: load() on an existing root directory raises nothing whatever the
\* directory holds, a plain file directly under it included; a plain file
\* contributes no record.
C17_LoadNeverRaises ==
    [][(Exists(disk, Root) /\ Load)
        => /\ last'.err = "ok"
           /\ IdentitiesIn(build_list') \subseteq
                DiskPairs(disk) \cup IdentitiesIn(build_list)]_vars

\* the place of an operation in the order clean, build, fetch, run, user
\* confirmation, publish
Rank(op) ==
    CASE op = "clean"   -> 1
      [] op = "build"   -> 2
      [] op = "fetch"   -> 3
      [] op = "run"     -> 4
      [] op = "ask"     -> 5
      [] op = "publish" -> 6

\* whether operation op was called in this run
Called(op) == \E i \in 1..Len(driver.log) : driver.log[i] = op

\* the targets this run has built
Built == driver.build_targets \ driver.todo

\* C18: in one run the operations are called in the order clean, build (once
\* per target), fetch, run, user confirmation, publish, each of the others at
\* most once; so clean is never called after a build, and the record a build
\* of this run created is in the registry from then on.
C18_FixedOrder ==
    /\ \A i, j \in 1..Len(driver.log) :
        i < j => /\ Rank(driver.log[i]) <= Rank(driver.log[j])
                 /\ driver.log[i] = driver.log[j] => driver.log[i] = "build"
    /\ \A target \in Built :
        CountIdentity(build_list, <<target, driver.version[1]>>) >= 1

\* a run given --clean, a build target, --run and --publish has called all of
\* clean, build, run, the confirmation and publish, and has ended
C18_Witness ==
    /\ driver.pc = "done"
    /\ Built # {}
    /\ Called("clean") /\ Called("build") /\ Called("run")
    /\ Called("ask") /\ Called("publish")

\* C19: in one run, when the set of build targets is not empty no fetch is
\* performed, even if --fetch was given; fetch is called only when the set of
\* build targets is empty.
C19_NoFetchWithTargets ==
    /\ driver.build_targets # {} => (~driver.fetch /\ ~Called("fetch"))
    /\ Called("fetch") => (driver.build_targets = {} /\ driver.argv.fetch)

\* a run given --fetch and a build target has ended, having built and not
\* fetched
C19_Witness ==
    /\ driver.pc = "done"
    /\ driver.argv.fetch
    /\ Built # {}
    /\ ~Called("fetch")

====
